---- MODULE Spec2Model ----
(***************************************************************************)
(* A model of tagify's TemplateParser (src/tagify/parser.py).              *)
(*                                                                         *)
(* Text is modelled by TLA+ strings, read character by character with      *)
(* SubSeq; the six regular expressions of the module are modelled by       *)
(* explicit scanners that follow the backtracking order of Python's re.    *)
(* A Python value is a tagged record [t, v]:                               *)
(*   "str" (v a string), "int" (v an integer), "bool" (v a BOOLEAN),       *)
(*   "float" (v = <<m, d>>, the decimal m / 10^d), "map" (v an insertion-  *)
(*   ordered sequence of <<key, value>> pairs, as a Python dict is),       *)
(*   "fn" (v the name of a host callable), "none" (Python's None).           *)
(***************************************************************************)
EXTENDS Integers, Sequences, FiniteSets, TLC

(***************************************************************************)
(* Characters and plain string helpers (str methods used by the parser).   *)
(***************************************************************************)
Space == {" ", "\n", "\t"}
Digit == {"0", "1", "2", "3", "4", "5", "6", "7", "8", "9"}
Letter == {"a", "b", "c", "d", "e", "f", "g", "h", "i", "j", "k", "l", "m",
           "n", "o", "p", "q", "r", "s", "t", "u", "v", "w", "x", "y", "z",
           "A", "B", "C", "D", "E", "F", "G", "H", "I", "J", "K", "L", "M",
           "N", "O", "P", "Q", "R", "S", "T", "U", "V", "W", "X", "Y", "Z"}
\* \w of the regular expressions
Word == Letter \cup Digit \cup {"_"}
\* [\w\d.] of _re_placeholder
WordDot == Word \cup {"."}
\* [\w\(\)\.,] of _re_match
MatchLeft == Word \cup {"(", ")", ".", ","}
Quotes == <<"'", "\"">>

Max(a, b) == IF a > b THEN a ELSE b
Min(a, b) == IF a < b THEN a ELSE b

\* the characters of s at indexes a..b (1-based, inclusive), clamped to s
Slice(s, a, b) ==
    IF Max(a, 1) > Min(b, Len(s)) THEN ""
    ELSE SubSeq(s, Max(a, 1), Min(b, Len(s)))

\* the character of s at index i, "" outside s
Ch(s, i) == Slice(s, i, i)

\* s[i:] of Python, i a 1-based index
From(s, i) == Slice(s, i, Len(s))

\* the first index >= i whose character is not in set, Len(s) + 1 if none
RECURSIVE Span(_, _, _)
Span(set, s, i) ==
    IF i <= Len(s) /\ Ch(s, i) \in set THEN Span(set, s, i + 1) ELSE i

\* the last index <= i whose character is not in set, 0 if none
RECURSIVE SpanBack(_, _, _)
SpanBack(set, s, i) ==
    IF i >= 1 /\ Ch(s, i) \in set THEN SpanBack(set, s, i - 1) ELSE i

\* str.strip()
Strip(s) == Slice(s, Span(Space, s, 1), SpanBack(Space, s, Len(s)))

\* whether pat stands in s at index i
StartsAt(s, pat, i) ==
    /\ i >= 1
    /\ i + Len(pat) - 1 <= Len(s)
    /\ Slice(s, i, i + Len(pat) - 1) = pat

\* str.startswith / str.endswith
StartsWith(s, pat) == StartsAt(s, pat, 1)
EndsWith(s, pat) == StartsAt(s, pat, Len(s) - Len(pat) + 1)

\* the least and the greatest member of a set of indexes, 0 if it is empty
Least(S) == IF S = {} THEN 0 ELSE CHOOSE j \in S : \A k \in S : j <= k
Greatest(S) == IF S = {} THEN 0 ELSE CHOOSE j \in S : \A k \in S : j >= k

\* the first index >= i at which pat stands in s, 0 if none
Find(s, pat, i) == Least({j \in i..Len(s) : StartsAt(s, pat, j)})

\* the last index in lo..i at which pat stands in s, 0 if none
FindLast(s, pat, lo, i) == Greatest({j \in lo..i : StartsAt(s, pat, j)})

\* "x in s" for a substring x
Contains(s, pat) == Find(s, pat, 1) # 0

\* an index n of Find, Len(s) + 1 when Find found nothing
OrEnd(s, n) == IF n = 0 THEN Len(s) + 1 ELSE n

\* the end of the line that holds index i: the index of the next "\n" at or
\* after i, Len(s) + 1 if none ("." of a regular expression stops there)
LineEnd(s, i) == OrEnd(s, Find(s, "\n", i))

\* str.split(sep) for a one-character separator; p is where sep stands first
RECURSIVE SplitAt(_, _, _)
SplitAt(s, sep, p) ==
    IF p = 0 THEN <<s>>
    ELSE <<Slice(s, 1, p - 1)>>
         \o SplitAt(From(s, p + 1), sep, Find(From(s, p + 1), sep, 1))

Split(s, sep) == SplitAt(s, sep, Find(s, sep, 1))

\* str.isdigit(), on ASCII text
IsDigit(s) == Len(s) >= 1 /\ Span(Digit, s, 1) = Len(s) + 1

\* str.isidentifier(), on ASCII text
IsIdentifier(s) ==
    /\ Len(s) >= 1
    /\ Ch(s, 1) \in Letter \cup {"_"}
    /\ Span(Word, s, 1) = Len(s) + 1

(***************************************************************************)
(* Python values: constructors, dict access, str(), bool(), ==, int(),     *)
(* float().                                                                *)
(***************************************************************************)
PyNone == [t |-> "none", v |-> 0]
VStr(s) == [t |-> "str", v |-> s]
VInt(n) == [t |-> "int", v |-> n]
VBool(b) == [t |-> "bool", v |-> b]
VFloat(m, d) == [t |-> "float", v |-> <<m, d>>]
VMap(pairs) == [t |-> "map", v |-> pairs]
VFn(name) == [t |-> "fn", v |-> name]

\* isinstance(x, dict), callable(x), isinstance(x, str)
IsDict(x) == x.t = "map"
IsCallable(x) == x.t = "fn"
IsStr(x) == x.t = "str"

\* the position of key in a dict's pairs, 0 if absent
RECURSIVE KeyIndex(_, _, _)
KeyIndex(pairs, key, i) ==
    IF i > Len(pairs) THEN 0
    ELSE IF pairs[i][1] = key THEN i
    ELSE KeyIndex(pairs, key, i + 1)

\* key in d
HasKey(d, key) == KeyIndex(d.v, key, 1) # 0

\* d.get(key, default)
Get(d, key, default) ==
    IF HasKey(d, key) THEN d.v[KeyIndex(d.v, key, 1)][2] ELSE default

\* Put as it would be if the assignment rebuilt the dict from the one item
PutAlone(d, key, val) == VMap(<<<<key, val>>>>)

\* d[key] = val: an existing key keeps its position, a new key is appended
Put(d, key, val) ==
    IF HasKey(d, key)
    THEN VMap([d.v EXCEPT ![KeyIndex(d.v, key, 1)] = <<key, val>>])
    ELSE VMap(Append(d.v, <<key, val>>))

\* the keys of a dict
Keys(d) == {d.v[i][1] : i \in 1..Len(d.v)}

DigitChars == <<"0", "1", "2", "3", "4", "5", "6", "7", "8", "9">>
DigitVal(c) == CHOOSE n \in 0..9 : DigitChars[n + 1] = c

RECURSIVE NatStr(_)
NatStr(n) ==
    IF n < 10 THEN DigitChars[n + 1]
    ELSE NatStr(n \div 10) \o DigitChars[(n % 10) + 1]

\* str(n) for an int
IntStr(n) == IF n < 0 THEN "-" \o NatStr(0 - n) ELSE NatStr(n)

RECURSIVE Pow10(_)
Pow10(d) == IF d = 0 THEN 1 ELSE 10 * Pow10(d - 1)

RECURSIVE ZeroPad(_, _)
ZeroPad(s, width) == IF Len(s) >= width THEN s ELSE ZeroPad("0" \o s, width)

\* a decimal m / 10^d without trailing zeros in its fraction
RECURSIVE Normal(_, _)
Normal(m, d) ==
    IF d > 0 /\ m % 10 = 0 THEN Normal(m \div 10, d - 1) ELSE <<m, d>>

Abs(n) == IF n < 0 THEN 0 - n ELSE n

\* str(x) for a float in positional notation
FloatStr(f) ==
    (IF f[1] < 0 THEN "-" ELSE "")
    \o NatStr(Abs(f[1]) \div Pow10(f[2])) \o "."
    \o (IF f[2] = 0 THEN "0"
        ELSE ZeroPad(NatStr(Abs(f[1]) % Pow10(f[2])), f[2]))

\* one character as repr(str) writes it in '...' and in "..."
EscapedChar(c) ==
    CASE c = "\\" -> "\\\\"
      [] c = "'" -> "\\'"
      [] c = "\n" -> "\\n"
      [] c = "\t" -> "\\t"
      [] OTHER -> c

EscapedCharDq(c) ==
    CASE c = "\\" -> "\\\\"
      [] c = "\n" -> "\\n"
      [] c = "\t" -> "\\t"
      [] OTHER -> c

RECURSIVE Escaped(_)
Escaped(s) ==
    IF s = "" THEN "" ELSE EscapedChar(Head(s)) \o Escaped(Tail(s))

RECURSIVE EscapedDq(_)
EscapedDq(s) ==
    IF s = "" THEN "" ELSE EscapedCharDq(Head(s)) \o EscapedDq(Tail(s))

\* repr(s) for a str: "..." only when s holds a ' and no "
StrRepr(s) ==
    IF Contains(s, "'") /\ ~Contains(s, "\"")
    THEN "\"" \o EscapedDq(s) \o "\""
    ELSE "'" \o Escaped(s) \o "'"

\* repr(x); str(x) differs from it only for a str.  The address that
\* CPython prints for a function object is left out.
RECURSIVE PyRepr(_)
RECURSIVE PairsRepr(_, _)
PairsRepr(pairs, i) ==
    IF i > Len(pairs) THEN ""
    ELSE (IF i > 1 THEN ", " ELSE "")
         \o StrRepr(pairs[i][1]) \o ": " \o PyRepr(pairs[i][2])
         \o PairsRepr(pairs, i + 1)

PyRepr(x) ==
    CASE x.t = "str" -> StrRepr(x.v)
      [] x.t = "int" -> IntStr(x.v)
      [] x.t = "bool" -> (IF x.v THEN "True" ELSE "False")
      [] x.t = "float" -> FloatStr(x.v)
      [] x.t = "map" -> "{" \o PairsRepr(x.v, 1) \o "}"
      [] x.t = "fn" -> "<function " \o x.v \o ">"
      [] OTHER -> "None"

\* str(x)
PyStr(x) == IF x.t = "str" THEN x.v ELSE PyRepr(x)

\* PyBool as it would be if only text and booleans could be false
PyBoolOfText(x) ==
    CASE x.t = "str" -> x.v # ""
      [] x.t = "bool" -> x.v
      [] OTHER -> x.t # "none"

\* bool(x)
PyBool(x) ==
    CASE x.t = "str" -> x.v # ""
      [] x.t = "int" -> x.v # 0
      [] x.t = "bool" -> x.v
      [] x.t = "float" -> x.v[1] # 0
      [] x.t = "map" -> Len(x.v) > 0
      [] x.t = "fn" -> TRUE
      [] OTHER -> FALSE

IsNumber(x) == x.t \in {"int", "bool", "float"}

\* a number as a decimal <<m, d>>
Decimal(x) ==
    CASE x.t = "int" -> <<x.v, 0>>
      [] x.t = "bool" -> <<IF x.v THEN 1 ELSE 0, 0>>
      [] OTHER -> x.v

\* whether the decimals x and y are the same number
SameDecimal(x, y) == x[1] * Pow10(y[2]) = y[1] * Pow10(x[2])

\* a == b: numbers by value across int, bool and float; dicts by their
\* items whatever the order; functions by identity; unlike types differ
RECURSIVE PyEq(_, _)
PyEq(a, b) ==
    IF IsNumber(a) /\ IsNumber(b) THEN SameDecimal(Decimal(a), Decimal(b))
    ELSE IF a.t # b.t THEN FALSE
    ELSE IF a.t = "map"
    THEN /\ Len(a.v) = Len(b.v)
         /\ \A i \in 1..Len(a.v) :
               /\ HasKey(b, a.v[i][1])
               /\ PyEq(a.v[i][2], Get(b, a.v[i][1], PyNone))
    ELSE a.v = b.v

\* the digits of "12_345": groups of digits joined by single underscores
IsDigits(s) ==
    /\ Len(s) >= 1
    /\ Ch(s, 1) \in Digit
    /\ Ch(s, Len(s)) \in Digit
    /\ Span(Digit \cup {"_"}, s, 1) = Len(s) + 1
    /\ ~Contains(s, "__")

RECURSIVE DigitsVal(_, _)
DigitsVal(s, acc) ==
    IF s = "" THEN acc
    ELSE IF Head(s) = "_" THEN DigitsVal(Tail(s), acc)
    ELSE DigitsVal(Tail(s), 10 * acc + DigitVal(Head(s)))

\* a string without its sign, and the sign
Unsigned(s) == IF StartsWith(s, "-") \/ StartsWith(s, "+") THEN Tail(s) ELSE s
Sign(s) == IF StartsWith(s, "-") THEN 0 - 1 ELSE 1

Parsed(v) == [ok |-> TRUE, v |-> v]
NotParsed == [ok |-> FALSE, v |-> PyNone]

\* int of the stripped text s
IntOf(s) ==
    IF IsDigits(Unsigned(s))
    THEN Parsed(VInt(Sign(s) * DigitsVal(Unsigned(s), 0)))
    ELSE NotParsed

\* int(s) for a str: [ok, v]; ok is FALSE where Python raises ValueError
ParseInt(s) == IntOf(Strip(s))

\* the number of digits of a fraction written fp
FractionDigits(fp) ==
    IF fp = "" THEN 0 ELSE Len(fp) - (Len(Split(fp, "_")) - 1)

\* the float of a normal decimal nm
FloatOfDecimal(nm) == VFloat(nm[1], nm[2])

\* the float with the given sign, integer part ip and fraction fp, where p
\* is the index of the point in the text (0 if it holds none)
FloatOfParts(sign, p, ip, fp) ==
    IF /\ p # 0
       /\ ip = "" \/ IsDigits(ip)
       /\ fp = "" \/ IsDigits(fp)
       /\ ip # "" \/ fp # ""
    THEN Parsed(FloatOfDecimal(
             Normal(sign * (DigitsVal(ip, 0) * Pow10(FractionDigits(fp))
                            + DigitsVal(fp, 0)),
                    FractionDigits(fp))))
    ELSE NotParsed

\* the float of the unsigned text u, cut at its point at index p
FloatAt(sign, u, p) == FloatOfParts(sign, p, Slice(u, 1, p - 1), From(u, p + 1))

\* float of the stripped text s
FloatOf(s) == FloatAt(Sign(s), Unsigned(s), Find(Unsigned(s), ".", 1))

\* float(s) for a str written as digits, a point and digits (the parser
\* calls it only on text that holds a point): [ok, v]
ParseFloat(s) == FloatOf(Strip(s))

(***************************************************************************)
(* Host callables.  The parser calls whatever callable the context holds;  *)
(* the model binds the ones the repository's tests and scripts define.     *)
(* A call returns [ok, v, msg]: msg is str(e) of the exception raised.     *)
(***************************************************************************)
Returned(v) == [ok |-> TRUE, v |-> v, msg |-> ""]
Raised(msg) == [ok |-> FALSE, v |-> PyNone, msg |-> msg]

\* int(x) for an argument, which is a str or an int
ArgInt(x) ==
    IF x.t = "int" THEN Returned(x)
    ELSE IF ParseInt(x.v).ok THEN Returned(ParseInt(x.v).v)
    ELSE Raised("invalid literal for int() with base 10: " \o StrRepr(x.v))

\* return int(a) + int(b), from the results of the two conversions
Sum(a, b) ==
    IF ~a.ok THEN a
    ELSE IF ~b.ok THEN b
    ELSE Returned(VInt(a.v.v + b.v.v))

\* def add(a, b): return int(a) + int(b)
add(args) ==
    IF Len(args) > 2
    THEN Raised("add() takes 2 positional arguments but "
                \o NatStr(Len(args)) \o " were given")
    ELSE IF Len(args) = 1
    THEN Raised("add() missing 1 required positional argument: 'b'")
    ELSE IF Len(args) = 0
    THEN Raised("add() missing 2 required positional arguments: 'a' and 'b'")
    ELSE Sum(ArgInt(args[1]), ArgInt(args[2]))

\* "greet": lambda x: f"Hey {x}"
greet(args) ==
    IF Len(args) > 1
    THEN Raised("TemplateParserTests.setUp.<locals>.<lambda>() takes 1 "
                \o "positional argument but " \o NatStr(Len(args))
                \o " were given")
    ELSE IF Len(args) = 0
    THEN Raised("TemplateParserTests.setUp.<locals>.<lambda>() missing 1 "
                \o "required positional argument: 'x'")
    ELSE Returned(VStr("Hey " \o PyStr(args[1])))

\* current(args...)
CallHost(name, args) == IF name = "add" THEN add(args) ELSE greet(args)

(***************************************************************************)
(* _process_quotes, _resolve_key                                           *)
(***************************************************************************)
RECURSIVE QuoteLoop(_, _)
QuoteLoop(key, i) ==
    IF i > Len(Quotes) THEN [is_quotes |-> FALSE, key |-> key]
    ELSE IF StartsWith(key, Quotes[i]) /\ EndsWith(key, Quotes[i])
    THEN [is_quotes |-> TRUE, key |-> Slice(key, 2, Len(key) - 1)]
    ELSE QuoteLoop(key, i + 1)

_process_quotes(key) == QuoteLoop(key, 1)

\* the loop of _resolve_key over the parts of a dotted path; next is
\* current.get(part) once current is known to be a dict
RECURSIVE ResolveParts(_, _, _)
RECURSIVE ResolveNext(_, _, _)
ResolveNext(parts, i, next) ==
    IF next.t = "none" THEN PyNone ELSE ResolveParts(parts, i + 1, next)

ResolveParts(parts, i, current) ==
    IF i > Len(parts) THEN current
    ELSE IF IsDict(current)
    THEN ResolveNext(parts, i, Get(current, parts[i], PyNone))
    ELSE PyNone

\* _resolve_key after _process_quotes returned q
ResolveQuoted(q, ctx) ==
    IF q.is_quotes THEN VStr(q.key)
    ELSE ResolveParts(Split(q.key, "."), 1, ctx)

_resolve_key(key, ctx) == ResolveQuoted(_process_quotes(key), ctx)

(***************************************************************************)
(* _re_placeholder: {\s*([\w\d.]+)*(?:\(([\s\S]+?)\))?\s*}                 *)
(***************************************************************************)
\* the first ")" at or after index p that is followed by \s*}, 0 if none:
\* the lazy [\s\S]+? stops at the first one; c is the next ")" 
RECURSIVE ArgsCloseAt(_, _)
ArgsCloseAt(s, c) ==
    IF c = 0 THEN 0
    ELSE IF Ch(s, Span(Space, s, c + 1)) = "}" THEN c
    ELSE ArgsCloseAt(s, Find(s, ")", c + 1))

ArgsClose(s, p) == ArgsCloseAt(s, Find(s, ")", p))

NoPlaceholder ==
    [ok |-> FALSE, end |-> 0, hasKey |-> FALSE, key |-> "",
     hasArgs |-> FALSE, args |-> ""]

\* a match that ends at index end: group 1 is key (hasKey FALSE when the
\* group did not take part), group 2 is args
Placeholder(end, key, hasArgs, args) ==
    [ok |-> TRUE, end |-> end, hasKey |-> key # "", key |-> key,
     hasArgs |-> hasArgs, args |-> args]

\* the match with an argument list that opens at index e and closes at c
PlaceholderCall(s, key, e, c) ==
    IF c = 0 THEN NoPlaceholder
    ELSE Placeholder(Span(Space, s, c + 1), key, TRUE, Slice(s, e + 1, c - 1))

\* the match without an argument list, the closing brace expected at c
PlaceholderBare(s, key, c) ==
    IF Ch(s, c) # "}" THEN NoPlaceholder ELSE Placeholder(c, key, FALSE, "")

\* the match whose key stands at indexes k..e-1
PlaceholderKey(s, k, e) ==
    IF Ch(s, e) = "("
    THEN PlaceholderCall(s, Slice(s, k, e - 1), e, ArgsClose(s, e + 2))
    ELSE PlaceholderBare(s, Slice(s, k, e - 1), Span(Space, s, e))

\* the match of _re_placeholder that starts at index i
PlaceholderAt(s, i) ==
    IF Ch(s, i) # "{" THEN NoPlaceholder
    ELSE PlaceholderKey(s, Span(Space, s, i + 1),
                        Span(WordDot, s, Span(Space, s, i + 1)))

(***************************************************************************)
(* _parse_function_call, _parse_placeholder, _process_placeholders.        *)
(* Each returns a record with                                              *)
(*   exc   - "" or the message of the exception that leaves the function,  *)
(*   calls - the host calls made, in order, as [fn, args] records.         *)
(***************************************************************************)
NoneTypeSplit == "'NoneType' object has no attribute 'split'"
NoneTypeIter == "'NoneType' object is not iterable"

\* quote_char after char was read
QuoteChar(char, quote_char) ==
    IF char \in {"\"", "'"}
    THEN IF quote_char = "" THEN char
         ELSE IF quote_char = char THEN "" ELSE quote_char
    ELSE quote_char

\* the first loop of _parse_function_call: expr cut at the commas that are
\* outside quotes, each piece stripped
RECURSIVE SplitArgs(_, _, _, _, _)
RECURSIVE SplitArgsChar(_, _, _, _, _, _)
SplitArgsChar(expr, i, char, qc, current_arg, args) ==
    IF char = "," /\ qc = ""
    THEN SplitArgs(expr, i + 1, qc, "", Append(args, Strip(current_arg)))
    ELSE SplitArgs(expr, i + 1, qc, current_arg \o char, args)

SplitArgs(expr, i, quote_char, current_arg, args) ==
    IF i > Len(expr)
    THEN IF current_arg # "" THEN Append(args, Strip(current_arg)) ELSE args
    ELSE SplitArgsChar(expr, i, Ch(expr, i), QuoteChar(Ch(expr, i), quote_char),
                       current_arg, args)

\* the second loop of _parse_function_call: one argument by its kind
ClassifyArg(arg, ctx) ==
    IF HasKey(ctx, arg) THEN VStr(PyStr(Get(ctx, arg, PyNone)))
    ELSE IF IsDigit(arg) THEN VInt(DigitsVal(arg, 0))
    ELSE IF \/ StartsWith(arg, "\"") /\ EndsWith(arg, "\"")
            \/ StartsWith(arg, "'") /\ EndsWith(arg, "'")
    THEN VStr(Slice(arg, 2, Len(arg) - 1))
    ELSE VStr(arg)

ClassifyArgs(raw, ctx) == [i \in 1..Len(raw) |-> ClassifyArg(raw[i], ctx)]

Rendered(calls, out) == [exc |-> "", calls |-> calls, out |-> out]
Failed(exc, calls) == [exc |-> exc, calls |-> calls, out |-> ""]

RECURSIVE _process_placeholders(_, _)
RECURSIVE _parse_placeholder(_, _)
RECURSIVE _parse_function_call(_, _)
RECURSIVE ArgPlaceholders(_, _, _, _, _)
RECURSIVE ArgProcessed(_, _, _, _, _, _)
RECURSIVE PlaceholderParts(_, _, _, _, _, _)
RECURSIVE PlaceholderPart(_, _, _, _, _, _)
RECURSIVE PlaceholderArgs(_, _, _, _, _, _, _)
RECURSIVE PlaceholderCalled(_, _, _, _, _, _, _)
RECURSIVE SubPlaceholders(_, _, _, _, _)
RECURSIVE SubPlaceholdersFrom(_, _, _, _, _, _)
RECURSIVE SubPlaceholdersAt(_, _, _, _, _, _, _)
RECURSIVE SubPlaceholdersWith(_, _, _, _, _, _, _, _)

\* r is the result of _process_placeholders on argument i
ArgProcessed(args, i, ctx, done, calls, r) ==
    IF r.exc # ""
    THEN [exc |-> r.exc, args |-> done, calls |-> calls \o r.calls]
    ELSE ArgPlaceholders(args, i + 1, ctx, Append(done, VStr(r.out)),
                         calls \o r.calls)

\* the closing list comprehension of _parse_function_call: placeholders
\* are processed in every argument that is a str
ArgPlaceholders(args, i, ctx, done, calls) ==
    IF i > Len(args) THEN [exc |-> "", args |-> done, calls |-> calls]
    ELSE IF ~IsStr(args[i])
    THEN ArgPlaceholders(args, i + 1, ctx, Append(done, args[i]), calls)
    ELSE ArgProcessed(args, i, ctx, done, calls,
                      _process_placeholders(args[i].v, ctx))

\* _parse_function_call as it would be if the placeholders of expr were
\* processed before the text is cut and its pieces classified
SplitSubstituted(r, ctx) ==
    [exc |-> r.exc, calls |-> r.calls,
     args |-> ClassifyArgs(SplitArgs(r.out, 1, "", "", <<>>), ctx)]

SubstituteFirst(expr, ctx) == SplitSubstituted(_process_placeholders(expr, ctx), ctx)

_parse_function_call(expr, ctx) ==
    ArgPlaceholders(ClassifyArgs(SplitArgs(expr, 1, "", "", <<>>), ctx),
                    1, ctx, <<>>, <<>>)

\* safe_unused, and the text returned by the except clause
SafeUnused(m) == "{" \o m.key \o "}"
ErrorText(m, msg) == "[ ERROR:" \o m.key \o ": " \o msg \o " ]"

\* the host call cur(a.args) returned r
PlaceholderCalled(m, parts, i, fn, ctx, made, r) ==
    IF ~r.ok THEN Rendered(made, ErrorText(m, r.msg))
    ELSE PlaceholderParts(m, parts, i + 1, r.v, ctx, made)

\* a is the result of _parse_function_call for the callable cur
PlaceholderArgs(m, parts, i, cur, ctx, calls, a) ==
    IF a.exc # "" THEN Rendered(calls \o a.calls, ErrorText(m, a.exc))
    ELSE PlaceholderCalled(m, parts, i, cur.v, ctx,
                           Append(calls \o a.calls,
                                  [fn |-> cur.v, args |-> a.args]),
                           CallHost(cur.v, a.args))

\* one turn of the loop of _parse_placeholder, cur the value of part i
PlaceholderPart(m, parts, i, cur, ctx, calls) ==
    IF IsDict(cur) THEN PlaceholderParts(m, parts, i + 1, cur, ctx, calls)
    ELSE IF IsCallable(cur)
    THEN IF ~m.hasArgs THEN Rendered(calls, ErrorText(m, NoneTypeIter))
         ELSE PlaceholderArgs(m, parts, i, cur, ctx, calls,
                              _parse_function_call(m.args, ctx))
    ELSE PlaceholderParts(m, parts, i + 1, cur, ctx, calls)

\* the loop of _parse_placeholder over the parts of the dotted path, and
\* its return statements
PlaceholderParts(m, parts, i, current, ctx, calls) ==
    IF i > Len(parts)
    THEN Rendered(calls, IF ~IsCallable(current) THEN PyStr(current)
                         ELSE SafeUnused(m))
    ELSE PlaceholderPart(m, parts, i,
                         IF IsDict(current)
                         THEN Get(current, parts[i], VStr(SafeUnused(m)))
                         ELSE current,
                         ctx, calls)

\* m is the match: func_key.split raises AttributeError outside the try
\* when group 1 is None
_parse_placeholder(m, ctx) ==
    IF ~m.hasKey THEN Failed(NoneTypeSplit, <<>>)
    ELSE PlaceholderParts(m, Split(m.key, "."), 1, ctx, ctx, <<>>)

\* r is what _parse_placeholder returned for the match m that starts at b
SubPlaceholdersWith(s, i, ctx, out, calls, b, m, r) ==
    IF r.exc # "" THEN Failed(r.exc, calls \o r.calls)
    ELSE SubPlaceholders(s, m.end + 1, ctx,
                         out \o Slice(s, i, b - 1) \o r.out,
                         calls \o r.calls)

\* m is the match of _re_placeholder at the brace at index b
SubPlaceholdersAt(s, i, ctx, out, calls, b, m) ==
    IF ~m.ok
    THEN SubPlaceholders(s, b + 1, ctx, out \o Slice(s, i, b), calls)
    ELSE SubPlaceholdersWith(s, i, ctx, out, calls, b, m,
                             _parse_placeholder(m, ctx))

\* b is the index of the next opening brace, 0 if none
SubPlaceholdersFrom(s, i, ctx, out, calls, b) ==
    IF i > Len(s) \/ b = 0 THEN Rendered(calls, out \o From(s, i))
    ELSE SubPlaceholdersAt(s, i, ctx, out, calls, b, PlaceholderAt(s, b))

\* _re_placeholder.sub(self._parse_placeholder, template), from index i on
SubPlaceholders(s, i, ctx, out, calls) ==
    SubPlaceholdersFrom(s, i, ctx, out, calls, Find(s, "{", i))

_process_placeholders(template, ctx) == SubPlaceholders(template, 1, ctx, "", <<>>)

(***************************************************************************)
(* _re_variables: "{% set ", a name of word characters, white space, "=", *)
(* white space, a greedy run of characters of one line (the value), " %}". *)
(***************************************************************************)
NoVariable == [ok |-> FALSE, end |-> 0, key |-> "", value |-> ""]

\* the part after "=", from index v on, where at most w characters of
\* white space can go to the white space before the value: that run is
\* greedy and gives back one character at a time; the value is greedy on
\* one line, so it ends at the LAST " %}" of that line, which is at close
RECURSIVE VariableValue(_, _, _, _)
RECURSIVE VariableClose(_, _, _, _, _)
VariableClose(s, key, v, w, close) ==
    IF close # 0
    THEN [ok |-> TRUE, end |-> close + 2, key |-> key,
          value |-> Slice(s, v + w, close - 1)]
    ELSE VariableValue(s, key, v, w - 1)

VariableValue(s, key, v, w) ==
    IF w < 0 THEN NoVariable
    ELSE VariableClose(s, key, v, w,
                       FindLast(s, " %}", v + w, LineEnd(s, v + w) - 3))

\* the match whose name stands at k..e-1, with "=" expected at index q
VariableName(s, k, e, q) ==
    IF e = k \/ Ch(s, q) # "=" THEN NoVariable
    ELSE VariableValue(s, Slice(s, k, e - 1), q + 1,
                       Span(Space, s, q + 1) - (q + 1))

\* the match of _re_variables that starts at index i
VariableAt(s, i) ==
    IF ~StartsAt(s, "{% set ", i) THEN NoVariable
    ELSE VariableName(s, i + 7, Span(Word, s, i + 7),
                      Span(Space, s, Span(Word, s, i + 7)))

\* the first match of _re_variables at or after index i; b is the index of
\* the next "{% set ", m the match there
RECURSIVE NextVariable(_, _)
RECURSIVE NextVariableFrom(_, _)
RECURSIVE NextVariableAt(_, _, _)
NextVariableAt(s, b, m) == IF m.ok THEN m ELSE NextVariable(s, b + 1)

NextVariableFrom(s, b) ==
    IF b = 0 THEN NoVariable ELSE NextVariableAt(s, b, VariableAt(s, b))

NextVariable(s, i) == NextVariableFrom(s, Find(s, "{% set ", i))

\* _re_variables.sub("", template), from index i on
RECURSIVE SubVariables(_, _)
RECURSIVE SubVariablesFrom(_, _, _)
RECURSIVE SubVariablesAt(_, _, _, _)
SubVariablesAt(s, i, b, m) ==
    IF m.ok THEN Slice(s, i, b - 1) \o SubVariables(s, m.end + 1)
    ELSE Slice(s, i, b) \o SubVariables(s, b + 1)

SubVariablesFrom(s, i, b) ==
    IF b = 0 THEN From(s, i) ELSE SubVariablesAt(s, i, b, VariableAt(s, b))

SubVariables(s, i) == SubVariablesFrom(s, i, Find(s, "{% set ", i))

(***************************************************************************)
(* _re_terms, _re_match, _evaluate_comparison, _evaluate_condition         *)
(***************************************************************************)
\* whether (\s&&\s|\s\|\|\s) matches at index i
TermSepAt(s, i) ==
    /\ Ch(s, i) \in Space
    /\ Slice(s, i + 1, i + 2) \in {"&&", "||"}
    /\ Ch(s, i + 3) \in Space

\* _re_terms.split(condition): terms and separators in turn; p is the
\* index of the next separator, 0 if none
RECURSIVE SplitTerms(_, _)
RECURSIVE SplitTermsAt(_, _, _)
SplitTermsAt(s, from, p) ==
    IF p = 0 THEN <<From(s, from)>>
    ELSE <<Slice(s, from, p - 1), Slice(s, p, p + 3)>> \o SplitTerms(s, p + 4)

SplitTerms(s, from) ==
    SplitTermsAt(s, from, Least({j \in from..Len(s) : TermSepAt(s, j)}))

NoMatch == [ok |-> FALSE, left |-> "", operator |-> "", right |-> ""]

\* the match whose left group ends before e, operator at o, right from r
MatchAt(term, e, o, r) ==
    IF /\ e > 1
       /\ Slice(term, o, o + 1) \in {"==", "!="}
       /\ r <= Len(term)
    THEN [ok |-> TRUE, left |-> Slice(term, 1, e - 1),
          operator |-> Slice(term, o, o + 1),
          right |-> Slice(term, r, LineEnd(term, r) - 1)]
    ELSE NoMatch

MatchOperator(term, e, o) == MatchAt(term, e, o, Span(Space, term, o + 2))
MatchLeftEnd(term, e) == MatchOperator(term, e, Span(Space, term, e))

\* _re_match.match(term): a run of [\w\(\)\.,], white space, == or !=,
\* white space, and the rest of the line (one character at least)
_re_match(term) == MatchLeftEnd(term, Span(MatchLeft, term, 1))

\* value unless the conversion r worked
Converted(r, value) == IF r.ok THEN r.v ELSE value

\* the cast loop: a str becomes a float when it holds a point and parses,
\* an int when it parses, and stays a str otherwise
Cast(value) ==
    IF ~IsStr(value) THEN value
    ELSE IF Contains(value.v, ".") THEN Converted(ParseFloat(value.v), value)
    ELSE Converted(ParseInt(value.v), value)

\* self._resolve_key(clean, ...) or clean
OrText(value, clean) == IF value.t = "none" THEN VStr(clean) ELSE value

\* the operand whose text without quotes is clean
OperandOf(clean, ctx) == Cast(OrText(_resolve_key(clean, ctx), clean))

\* the operand of a comparison: quotes cleaned, resolved from the context,
\* with the cleaned text as the fallback
Operand(raw, ctx) == OperandOf(_process_quotes(Strip(raw)).key, ctx)

Value(b) == [exc |-> "", val |-> b]

\* the match statement on the operator
Compare(operator, left_value, right_value) ==
    CASE operator = "==" -> Value(PyEq(left_value, right_value))
      [] operator = "!=" -> Value(~PyEq(left_value, right_value))
      [] OTHER -> [exc |-> "Invalid operator: " \o operator, val |-> FALSE]

\* _evaluate_comparison on the stripped term, match_eq the result of
\* _re_match on it
EvaluateTerm(term, match_eq, ctx) ==
    IF StartsWith(term, "not ")
    THEN Value(~PyBool(_resolve_key(Strip(From(term, 5)), ctx)))
    ELSE IF ~match_eq.ok /\ (IsIdentifier(term) \/ Contains(term, "."))
    THEN Value(PyBool(_resolve_key(term, ctx)))
    ELSE IF ~match_eq.ok THEN Value(FALSE)
    ELSE Compare(match_eq.operator, Operand(match_eq.left, ctx),
                 Operand(match_eq.right, ctx))

EvaluateStripped(term, ctx) == EvaluateTerm(term, _re_match(term), ctx)

\* _evaluate_comparison returns [exc, val]; exc is "" or the message of
\* the ValueError of the last case of the match statement
_evaluate_comparison(term, ctx) == EvaluateStripped(Strip(term), ctx)

\* result after the operator and the value of the next term
Combine(operator, result, next) ==
    IF operator = "&&" THEN result /\ next
    ELSE IF operator = "||" THEN result \/ next
    ELSE result

\* the loop of _evaluate_condition over the terms after the first
RECURSIVE FoldTerms(_, _, _, _)
RECURSIVE FoldNext(_, _, _, _, _)
FoldNext(terms, i, result, ctx, next_term) ==
    IF next_term.exc # "" THEN next_term
    ELSE FoldTerms(terms, i + 2,
                   Combine(Strip(terms[i]), result, next_term.val), ctx)

FoldTerms(terms, i, result, ctx) ==
    IF i > Len(terms) THEN Value(result)
    ELSE FoldNext(terms, i, result, ctx,
                  _evaluate_comparison(Strip(terms[i + 1]), ctx))

\* _evaluate_condition after its first term gave first
FoldFirst(terms, first, ctx) ==
    IF first.exc # "" THEN first ELSE FoldTerms(terms, 2, first.val, ctx)

EvaluateTerms(terms, ctx) ==
    FoldFirst(terms, _evaluate_comparison(Strip(terms[1]), ctx), ctx)

_evaluate_condition(condition, ctx) ==
    EvaluateTerms(SplitTerms(condition, 1), ctx)

(***************************************************************************)
(* _re_blocks, _evaluate_conditional_block                                 *)
(***************************************************************************)
NoBlock == [ok |-> FALSE, start |-> 0, end |-> 0, else |-> FALSE, cond |-> ""]

\* the elif marker at index i, its condition from k up to the " %}" at p
ElifAt(s, i, k, p) ==
    IF p # 0 /\ p < LineEnd(s, k)
    THEN [ok |-> TRUE, start |-> i, end |-> p + 2, else |-> FALSE,
          cond |-> Slice(s, k, p - 1)]
    ELSE NoBlock

\* the match of _re_blocks that starts at index i: "{% elif ", a lazy run
\* of characters of one line, " %}"; or "{% else %}"
BlockAt(s, i) ==
    IF StartsAt(s, "{% elif ", i)
    THEN ElifAt(s, i, i + 8, Find(s, " %}", i + 9))
    ELSE IF StartsAt(s, "{% else %}", i)
    THEN [ok |-> TRUE, start |-> i, end |-> i + 9, else |-> TRUE, cond |-> ""]
    ELSE NoBlock

\* _re_blocks.finditer(content), from index i on; b is the index of the
\* next "{% el", m the match there
RECURSIVE FindBlocks(_, _)
RECURSIVE FindBlocksFrom(_, _)
RECURSIVE FindBlocksAt(_, _, _)
FindBlocksAt(s, b, m) ==
    IF m.ok THEN <<m>> \o FindBlocks(s, m.end + 1) ELSE FindBlocks(s, b + 1)

FindBlocksFrom(s, b) ==
    IF b = 0 THEN <<>> ELSE FindBlocksAt(s, b, BlockAt(s, b))

FindBlocks(s, i) == FindBlocksFrom(s, Find(s, "{% el", i))

\* the conditions list: the if condition, then the stripped condition of
\* each elif and None (else |-> TRUE) for each else
Conditions(condition, ms) ==
    <<[else |-> FALSE, cond |-> condition]>>
    \o [j \in 1..Len(ms) |->
            [else |-> ms[j].else, cond |-> Strip(ms[j].cond)]]

\* the blocks list: the text between the markers, and after the last one
Blocks(content, ms) ==
    [j \in 1..(Len(ms) + 1) |->
        Slice(content,
              IF j = 1 THEN 1 ELSE ms[j - 1].end + 1,
              IF j > Len(ms) THEN Len(content) ELSE ms[j].start - 1)]

Chosen(out) == [exc |-> "", out |-> out]
Aborted(exc) == [exc |-> exc, out |-> ""]

\* for cond, block in zip(conditions, blocks): the first branch wins; r is
\* the value of condition j
RECURSIVE FirstBranch(_, _, _, _)
RECURSIVE BranchTaken(_, _, _, _, _)
\* BranchTaken as it would be if the value of the condition were not read
BranchAlways(conditions, blocks, j, ctx, r) ==
    IF r.exc # "" THEN Aborted(r.exc) ELSE Chosen(Strip(blocks[j]))

BranchTaken(conditions, blocks, j, ctx, r) ==
    IF r.exc # "" THEN Aborted(r.exc)
    ELSE IF r.val THEN Chosen(Strip(blocks[j]))
    ELSE FirstBranch(conditions, blocks, j + 1, ctx)

FirstBranch(conditions, blocks, j, ctx) ==
    IF j > Len(conditions) THEN Chosen("")
    ELSE IF conditions[j].else THEN Chosen(Strip(blocks[j]))
    ELSE BranchTaken(conditions, blocks, j, ctx,
                     _evaluate_condition(Strip(conditions[j].cond), ctx))

\* the block with the markers ms of its content
BlockOf(m, ms, ctx) ==
    FirstBranch(Conditions(m.condition, ms), Blocks(m.content, ms), 1, ctx)

\* m holds the two groups of the match: condition and content
_evaluate_conditional_block(m, ctx) ==
    BlockOf(m, FindBlocks(m.content, 1), ctx)

(***************************************************************************)
(* _re_conditional_pattern, _process_conditionals                          *)
(***************************************************************************)
NoConditional == [ok |-> FALSE, end |-> 0, condition |-> "", content |-> ""]

\* the match whose condition stands at c..p-1 and whose content ends
\* before the "{% endif %}" at q
ConditionalEnd(s, c, p, q) ==
    IF p = 0 \/ q = 0 THEN NoConditional
    ELSE [ok |-> TRUE, end |-> q + 10,
          condition |-> Slice(s, c, p - 1),
          content |-> Slice(s, p + 3, q - 1)]

ConditionalBody(s, c, p) == ConditionalEnd(s, c, p, Find(s, "{% endif %}", p + 4))

\* the match of _re_conditional_pattern that starts at index i: "{% if ",
\* a lazy run of any characters, " %}", a lazy run of any characters,
\* "{% endif %}"; both runs hold one character at least
ConditionalAt(s, i) ==
    IF ~StartsAt(s, "{% if ", i) THEN NoConditional
    ELSE ConditionalBody(s, i + 6, Find(s, " %}", i + 7))

\* _re_conditional_pattern.sub(self._evaluate_conditional_block, template)
RECURSIVE SubConditionals(_, _, _, _)
RECURSIVE SubConditionalsFrom(_, _, _, _, _)
RECURSIVE SubConditionalsAt(_, _, _, _, _, _)
RECURSIVE SubConditionalsWith(_, _, _, _, _, _, _)
SubConditionalsWith(s, i, ctx, out, b, m, r) ==
    IF r.exc # "" THEN Aborted(r.exc)
    ELSE SubConditionals(s, m.end + 1, ctx, out \o Slice(s, i, b - 1) \o r.out)

SubConditionalsAt(s, i, ctx, out, b, m) ==
    IF ~m.ok THEN SubConditionals(s, b + 1, ctx, out \o Slice(s, i, b))
    ELSE SubConditionalsWith(s, i, ctx, out, b, m,
                             _evaluate_conditional_block(m, ctx))

SubConditionalsFrom(s, i, ctx, out, b) ==
    IF i > Len(s) \/ b = 0 THEN Chosen(out \o From(s, i))
    ELSE SubConditionalsAt(s, i, ctx, out, b, ConditionalAt(s, b))

SubConditionals(s, i, ctx, out) ==
    SubConditionalsFrom(s, i, ctx, out, Find(s, "{% if ", i))

_process_conditionals(template, ctx) == SubConditionals(template, 1, ctx, "")

(***************************************************************************)
(* The engine: one TemplateParser instance and its render calls.           *)
(***************************************************************************)
VARIABLES
    context,       \* self.context
    conditionals,  \* self._conditionals
    pc,            \* where render stands: "idle" between calls, else the
                   \* stage that runs next
    source,        \* the template argument of the current (or last) call
    template,      \* the local variable template of render
    cursor,        \* where finditer of _process_variables goes on
    stageIn,       \* template as the last finished stage received it
    ctx0,          \* the context as it was when the current call began
    calls,         \* the host calls of the current call, in order
    result,        \* [status, out] of the last call: "ok" with the text
                   \* returned, "raise" with the message of the exception
    renders,       \* the number of render calls made
    pool           \* the templates the host renders

vars == <<context, conditionals, pc, source, template, cursor, stageIn,
          ctx0, calls, result, renders, pool>>

\* the number of render calls of one run
MaxRenders == 2

\* the context of tests/test_basics.py (setUp), with add of tests/basic.py
\* and values that the conditions of the tests do not reach: a zero, a
\* float, an empty dict, text with a comma
TestContext ==
    VMap(<<
        <<"user", VMap(<<<<"name", VStr("Alice")>>, <<"age", VInt(25)>>,
                         <<"greet", VFn("greet")>>>>)>>,
        <<"name", VStr("World")>>,
        <<"value", VStr("42")>>,
        <<"number", VInt(10)>>,
        <<"is_admin", VBool(FALSE)>>,
        <<"enabled", VBool(TRUE)>>,
        <<"truthy", VStr("non-empty")>>,
        <<"falsy", VStr("")>>,
        <<"zero", VInt(0)>>,
        <<"ratio", VFloat(0, 0)>>,
        <<"half", VFloat(5, 1)>>,
        <<"empty", VMap(<<>>)>>,
        <<"csv", VStr("a,b")>>,
        <<"add", VFn("add")>>
    >>)

\* TemplateParser() and TemplateParser({}): context or {}
EmptyContext == VMap(<<>>)

Contexts == {TestContext, EmptyContext}

\* __init__
InitEngine(templates) ==
    /\ context \in Contexts
    /\ conditionals \in BOOLEAN
    /\ pc = "idle"
    /\ source = ""
    /\ template = ""
    /\ cursor = 1
    /\ stageIn = ""
    /\ ctx0 = context
    /\ calls = <<>>
    /\ result = [status |-> "none", out |-> ""]
    /\ renders = 0
    /\ pool = templates

\* render(template), up to the call of _process_variables
Render(t) ==
    /\ pc = "idle"
    /\ renders < MaxRenders
    /\ source' = t
    /\ stageIn' = t
    /\ template' = Strip(t)
    /\ cursor' = 1
    /\ ctx0' = context
    /\ calls' = <<>>
    /\ result' = [status |-> "running", out |-> ""]
    /\ renders' = renders + 1
    /\ pc' = "variables"
    /\ UNCHANGED <<context, conditionals, pool>>

\* the directive m is bound to r, the result of _process_placeholders on
\* its value; an exception of _process_placeholders leaves render
Bind(m, r) ==
    /\ m.ok
    /\ calls' = calls \o r.calls
    /\ IF r.exc # ""
       THEN /\ result' = [status |-> "raise", out |-> r.exc]
            /\ pc' = "idle"
            /\ UNCHANGED <<context, cursor>>
       ELSE /\ context' = Put(context, Strip(m.key), VStr(r.out))
            /\ cursor' = m.end + 1
            /\ UNCHANGED <<result, pc>>

BindMatch(m) == Bind(m, _process_placeholders(Strip(m.value), context))

\* one turn of the loop of _process_variables: the next set directive is
\* bound
BindVariable ==
    /\ pc = "variables"
    /\ BindMatch(NextVariable(template, cursor))
    /\ UNCHANGED <<conditionals, source, template, stageIn, ctx0, renders,
                   pool>>

\* the end of _process_variables: the directives are cut out of the text
EndVariables ==
    /\ pc = "variables"
    /\ ~NextVariable(template, cursor).ok
    /\ stageIn' = template
    /\ template' = SubVariables(template, 1)
    /\ pc' = IF conditionals THEN "conditionals" ELSE "placeholders"
    /\ UNCHANGED <<context, conditionals, source, cursor, ctx0, calls,
                   result, renders, pool>>

\* render goes on with r, the result of _process_conditionals
Conditioned(r) ==
    IF r.exc # ""
    THEN /\ result' = [status |-> "raise", out |-> r.exc]
         /\ pc' = "idle"
         /\ UNCHANGED <<template, stageIn>>
    ELSE /\ stageIn' = template
         /\ template' = r.out
         /\ pc' = "placeholders"
         /\ UNCHANGED result

\* template = self._process_conditionals(template)
ProcessConditionals ==
    /\ pc = "conditionals"
    /\ Conditioned(_process_conditionals(template, context))
    /\ UNCHANGED <<context, conditionals, source, cursor, ctx0, calls,
                   renders, pool>>

\* render ends with r, the result of _process_placeholders
Substituted(r) ==
    /\ calls' = calls \o r.calls
    /\ pc' = "idle"
    /\ IF r.exc # ""
       THEN /\ result' = [status |-> "raise", out |-> r.exc]
            /\ UNCHANGED <<template, stageIn>>
       ELSE /\ stageIn' = template
            /\ template' = r.out
            /\ result' = [status |-> "ok", out |-> Strip(r.out)]

\* template = self._process_placeholders(template); return template.strip()
ProcessPlaceholders ==
    /\ pc = "placeholders"
    /\ Substituted(_process_placeholders(template, context))
    /\ UNCHANGED <<context, conditionals, source, cursor, ctx0, renders,
                   pool>>

Next ==
    \/ \E t \in pool : Render(t)
    \/ BindVariable
    \/ EndVariables
    \/ ProcessConditionals
    \/ ProcessPlaceholders

(***************************************************************************)
(* The templates the host renders.  Spec renders templates with set        *)
(* directives, SpecCond templates with conditional blocks, SpecCall        *)
(* templates with placeholders and calls.                                  *)
(***************************************************************************)
\* the longest run of items of a template of Spec
MaxItems == 2
\* the most branches with a condition (if and elif) of a block of SpecCond
MaxBranches == 3

\* the sequences over S of length 1..n
SeqsUpTo(S, n) == UNION {[1..k -> S] : k \in 1..n}

\* the members of seq joined by sep
RECURSIVE Join(_, _, _)
Join(seq, sep, i) ==
    IF i > Len(seq) THEN ""
    ELSE (IF i > 1 THEN sep ELSE "") \o seq[i] \o Join(seq, sep, i + 1)

\* templates of the tests and the scripts of the repository
TestTemplates ==
    {"Hi {name}!",
     "{% set test = Test Value %}{test}",
     "   Hello {name}   ",
     "{% set user_type = guest %}\n{% if user.name == Alice && user.age == 25 %}\nWelcome back, {user.name}!\n{% else %}\nUnknown user.\n{% endif %}",
     "{% set num = 2 %}\n{% if 2 == num %}This is true!{% else %}This is false.{% endif %}",
     "{% set rand = {add(1, 100)} %}\nand 1+rand = {add(1, {rand})}",
     "{% set broken = {} %}{broken}",
     "{}"}

\* a set directive
SetText(name, value) == "{% set " \o name \o " = " \o value \o " %}"

\* an item of a template of Spec: a set directive [name, value] or other
\* text [text]
SetItem(name, value) == [set |-> TRUE, name |-> name, value |-> value, text |-> ""]
TextItem(text) == [set |-> FALSE, name |-> "", value |-> "", text |-> text]
ItemText(it) == IF it.set THEN SetText(it.name, it.value) ELSE it.text

Items ==
    {SetItem("a", "1"), SetItem("b", "{a}"), SetItem("a", "2"),
     TextItem("{% if a == 1 %}Y{% else %}N{% endif %}"),
     TextItem("[{a}|{b}]")}

\* the items one per line ("\n") or all on one line ("")
ItemShapes ==
    {[items |-> its, sep |-> sep] :
        its \in SeqsUpTo(Items, MaxItems), sep \in {"", "\n"}}

ShapeText(d) == Join([j \in 1..Len(d.items) |-> ItemText(d.items[j])], d.sep, 1)

ItemTemplates == {ShapeText(d) : d \in ItemShapes}

\* a set directive before or after a condition on the name it binds
BoundNames == {"a", "name"}
BoundValues == {"1", "guest"}
IfText(cond) == "{% if " \o cond \o " %}Y{% else %}N{% endif %}"
SetThenIf(k, v) == SetText(k, v) \o "\n" \o IfText(k \o " == " \o v)
IfThenSet(k, v) == IfText(k \o " == " \o v) \o "\n" \o SetText(k, v)

\* b is bound to the value of name, and name is bound again after it
EagerTemplate == "{% set b = {name} %}\n{% set name = Z %}\n[{b}|{name}]"

\* a condition whose operand is the text of a placeholder
OrderTemplate == "{% set x = World %}\n" \o IfText("x == {name}")

Templates ==
    TestTemplates \cup ItemTemplates
    \cup {SetThenIf(k, v) : k \in BoundNames, v \in BoundValues}
    \cup {IfThenSet(k, v) : k \in BoundNames, v \in BoundValues}
    \cup {EagerTemplate, OrderTemplate}

\* a conditional block: the conditions of if and elif in order, the body
\* of the if branch, whether an else branch ends it
BranchConds == {"truthy", " not enabled ", "number == 10 || falsy"}
FirstBodies == {" first ", ""}
BranchBody(j) == "\nbody" \o NatStr(j) \o " {name} "
ElseBody == " other\n"

BlockShapes ==
    {[conds |-> cs, first |-> b, else |-> e] :
        cs \in SeqsUpTo(BranchConds, MaxBranches),
        b \in FirstBodies, e \in BOOLEAN}

\* the body of branch j of shape d
ShapeBody(d, j) == IF j = 1 THEN d.first ELSE BranchBody(j)

RECURSIVE ElifText(_, _)
ElifText(d, j) ==
    IF j > Len(d.conds) THEN ""
    ELSE "{% elif " \o d.conds[j] \o " %}" \o ShapeBody(d, j)
         \o ElifText(d, j + 1)

\* what stands between the if marker and the endif marker
BlockContent(d) ==
    d.first \o ElifText(d, 2) \o (IF d.else THEN "{% else %}" \o ElseBody ELSE "")

BlockText(d) ==
    "{% if " \o d.conds[1] \o " %}" \o BlockContent(d) \o "{% endif %}"

\* two blocks of one branch each in one template
PairShapes ==
    {<<[conds |-> <<c1>>, first |-> " first ", else |-> e],
       [conds |-> <<c2>>, first |-> " first ", else |-> ~e]>> :
        c1 \in BranchConds, c2 \in BranchConds, e \in BOOLEAN}

PairText(p) == "[" \o BlockText(p[1]) \o " + " \o BlockText(p[2]) \o "]"

\* comparisons: an operand is a path, bare text or a quoted literal
LeftOperands == {"name", "value", "user.name", "'World'", "\"name\""}
RightOperands ==
    {"'name'", "'World'", "\"value\"", "'42'", "'user.name'", "World",
     "name", "Alice", "42"}
Comparisons ==
    {[left |-> l, operator |-> o, right |-> r] :
        l \in LeftOperands, o \in {"==", "!="}, r \in RightOperands}
ComparisonText(c) == IfText(c.left \o " " \o c.operator \o " " \o c.right)

\* truthiness: a bare path, or not and a path
Paths ==
    {"truthy", "falsy", "enabled", "is_admin", "number", "zero", "ratio",
     "half", "empty", "user", "user.name", "user.greet", "user.missing",
     "name.first", "missing", "add"}
TruthText(negated, path) == IfText((IF negated THEN "not " ELSE "") \o path)

\* comparisons with an operator that is neither == nor !=
OtherOperators == {"<", ">", "<=", ">="}
OtherComparisons ==
    {[left |-> l, operator |-> o, right |-> r] :
        l \in {"number", "user.age"}, o \in OtherOperators, r \in {"3", "number"}}

CondTemplates ==
    {"[" \o BlockText(d) \o "]" : d \in BlockShapes}
    \cup {PairText(p) : p \in PairShapes}
    \cup {ComparisonText(c) : c \in Comparisons}
    \cup {TruthText(n, p) : n \in BOOLEAN, p \in Paths}
    \cup {ComparisonText(c) : c \in OtherComparisons}
    \cup {"{% set empty = x %}", "{% set number = 0 %}"}

\* placeholder tokens: white space inside the braces, a dotted path, and
\* an argument list or none
PlaceholderPaths ==
    {"missing", "missing.value", "user.missing", "name.foo", "user.name.first",
     "number.x", "name", "user.name", "number", "user", "empty", "add",
     "user.greet"}
TokenText(lead, path, args, trail) == "{" \o lead \o path \o args \o trail \o "}"
Tokens ==
    {[lead |-> l, path |-> p, args |-> a, trail |-> t] :
        l \in {"", " "}, p \in PlaceholderPaths, a \in {"", "(1, 2)"},
        t \in {"", " "}}

\* argument lists of calls
ArgLists ==
    {"1, 1", "1, {value}", "{value}, {number}", "{csv}, 2", "{csv}",
     "value, 'x'", "\"a,2\", b", "'{name}'", "'a, {name}', 7", "1a, 1",
     "number", "{user.name}", "{}, 1", "{add(1, 1)}, 2", "007, x y"}
Callables == {"add", "user.greet"}
CallText(f, a) == "<{" \o f \o "(" \o a \o ")}>"

CallTemplates ==
    {"<" \o TokenText(k.lead, k.path, k.args, k.trail) \o ">" : k \in Tokens}
    \cup {CallText(f, a) : f \in Callables, a \in ArgLists}
    \cup {"{% set csv = 1,2 %}", "{% set value = {number} %}"}

Init == InitEngine(Templates)
Spec == Init /\ [][Next]_vars

InitCond == InitEngine(CondTemplates)
SpecCond == InitCond /\ [][Next]_vars

InitCall == InitEngine(CallTemplates)
SpecCall == InitCall /\ [][Next]_vars

(***************************************************************************)
(* Properties.  The conditional stage has just run when render stands      *)
(* before the placeholder stage of an engine with conditionals enabled;    *)
(* the variable stage has just run when it stands before the stage after   *)
(* it; a call is over when render is idle again.                           *)
(***************************************************************************)
AfterConditionals == pc = "placeholders" /\ conditionals
AfterVariables == pc = IF conditionals THEN "conditionals" ELSE "placeholders"
RenderedOk(t) == pc = "idle" /\ renders > 0 /\ source = t /\ result.status = "ok"
Ended(t) == pc = "idle" /\ renders > 0 /\ source = t

\* the text that stands for a block of shape d: the trimmed body of the
\* first branch from j on whose condition is true in ctx, else the trimmed
\* else body, else nothing
RECURSIVE Winner(_, _, _)
Winner(d, j, ctx) ==
    IF j > Len(d.conds) THEN (IF d.else THEN Strip(ElseBody) ELSE "")
    ELSE IF _evaluate_condition(Strip(d.conds[j]), ctx).val
    THEN Strip(ShapeBody(d, j))
    ELSE Winner(d, j + 1, ctx)

\* C1: the conditional stage replaces every matched block by the trimmed
\* body of the first branch, in source order, whose condition is true, else
\* by the trimmed else body, else by the empty string; the text around the
\* block stays, and no text of another branch appears.
C1_FirstTrueBranch ==
    AfterConditionals =>
        /\ \A d \in BlockShapes :
              (source = "[" \o BlockText(d) \o "]" /\ BlockContent(d) # "")
              => template = "[" \o Winner(d, 1, context) \o "]"
        /\ \A p \in PairShapes :
              source = PairText(p)
              => template = "[" \o Winner(p[1], 1, context) \o " + "
                            \o Winner(p[2], 1, context) \o "]"

\* C1: the first branch is false, the second is true and wins over the
\* third, which is true as well, and over the else branch
C1_SecondBranchWins ==
    /\ AfterConditionals
    /\ context = TestContext
    /\ source = "[" \o BlockText([conds |-> <<" not enabled ", "truthy", "truthy">>,
                                 first |-> " first ", else |-> TRUE]) \o "]"
    /\ template = "[body2 {name}]"

\* what the placeholder of the top-level name k gives in ctx
Shown(k, ctx) ==
    IF HasKey(ctx, k) THEN PyStr(Get(ctx, k, PyNone)) ELSE "{" \o k \o "}"

\* C2: within one call every set directive of the template, wherever it
\* stands, is bound before a condition is evaluated, and conditions are
\* evaluated before the placeholders outside set values are substituted:
\* a condition on a name that a set directive of the same template binds
\* sees the bound value, and a set value is resolved once, when it is bound.
C2_SetsBeforeConditions ==
    /\ pc = "conditionals" =>
          \A d \in ItemShapes :
              source = ShapeText(d) =>
                  \A j \in 1..Len(d.items) :
                      d.items[j].set => HasKey(context, d.items[j].name)
    /\ \A k \in BoundNames, v \in BoundValues :
          /\ (conditionals /\ RenderedOk(SetThenIf(k, v))) => result.out = "Y"
          /\ (conditionals /\ RenderedOk(IfThenSet(k, v))) => result.out = "Y"
    /\ (conditionals /\ RenderedOk(OrderTemplate)) => result.out = "N"
    /\ RenderedOk(EagerTemplate) => result.out = "[" \o Shown("name", ctx0) \o "|Z]"

\* the context after the set items from j on are bound in turn, each value
\* resolved against the context as it stands then
RECURSIVE BoundItems(_, _, _)
BoundItems(items, j, ctx) ==
    IF j > Len(items) THEN ctx
    ELSE IF items[j].set
    THEN BoundItems(items, j + 1,
                    Put(ctx, items[j].name,
                        VStr(_process_placeholders(items[j].value, ctx).out)))
    ELSE BoundItems(items, j + 1, ctx)

\* the text of shape d with the spans of its set directives deleted
KeptText(d) ==
    Join([j \in 1..Len(d.items) |->
              IF d.items[j].set THEN "" ELSE d.items[j].text], d.sep, 1)

\* C9: the variable stage handles every set directive on its own and in
\* source order, also when directives share a line: each name is bound to
\* its own resolved value, the last write wins, and the output is the input
\* without the spans of the set directives, every other character kept.
C9_EachDirective ==
    AfterVariables =>
        \A d \in ItemShapes :
            source = ShapeText(d) =>
                /\ template = KeptText(d)
                /\ context = BoundItems(d.items, 1, ctx0)

\* C10: the context changes by set directives alone: a call whose template
\* holds no set directive leaves it as it was, a call changes only names
\* that a set directive of its template binds, no key is removed, and a
\* later call reads the bindings of the earlier ones in its placeholders and
\* conditions.
C10_ContextFrame ==
    /\ ~Contains(source, "{% set ") => context = ctx0
    /\ \A k \in Keys(ctx0) : HasKey(context, k)
    /\ \A k \in Keys(context) :
          (~HasKey(ctx0, k) \/ Get(context, k, PyNone) # Get(ctx0, k, PyNone))
          => Contains(source, "{% set " \o k \o " = ")
    /\ RenderedOk("[{a}|{b}]") =>
          result.out = "[" \o Shown("a", ctx0) \o "|" \o Shown("b", ctx0) \o "]"
    /\ (conditionals /\ RenderedOk("{% if a == 1 %}Y{% else %}N{% endif %}")) =>
          result.out = IF Shown("a", ctx0) = "1" THEN "Y" ELSE "N"

\* C10: the second call of an engine that began with an empty context
\* shows a and b as the first call bound them
C10_LaterRenderSeesBinding ==
    /\ renders = 2
    /\ Ended("[{a}|{b}]")
    /\ Keys(ctx0) = {"a", "b"}
    /\ context = ctx0
    /\ result.out = "[1|1]"

\* the template that holds the one token k
TokenTemplate(k) == "<" \o TokenText(k.lead, k.path, k.args, k.trail) \o ">"

\* a call of render that returns text
Gave(text) == [status |-> "ok", out |-> text]

\* C3: a placeholder whose dotted path cannot be resolved (a key is absent,
\* or parts remain at a value that is no mapping) does not make render
\* fail, and its source text comes out character for character, white
\* space in the braces and argument list included.
C3_PassThrough ==
    \A k \in Tokens :
        (Ended(TokenTemplate(k)) /\ _resolve_key(k.path, ctx0).t = "none")
        => result = Gave(TokenTemplate(k))

\* C4: a placeholder whose path ends at a mapping, or at a callable while
\* the token has no argument list, comes out as its source text, and no
\* callable is called.
C4_NotRendered ==
    \A k \in Tokens :
        (/\ Ended(TokenTemplate(k))
         /\ \/ IsDict(_resolve_key(k.path, ctx0))
            \/ IsCallable(_resolve_key(k.path, ctx0)) /\ k.args = "")
        => (result = Gave(TokenTemplate(k)) /\ calls = <<>>)

\* whether the token of CallText(f, a) is a call of a callable of ctx with
\* the argument text a: f resolves to a callable, and the argument group of
\* the match (which ends at the first closing parenthesis that a closing
\* brace follows) is all of a
Calls(f, a, ctx) ==
    /\ IsCallable(_resolve_key(f, ctx))
    /\ PlaceholderAt(CallText(f, a), 2).args = a

\* the host calls of a call of render whose one placeholder calls fn, where
\* e is the outcome of making the arguments: [exc, args, calls]
CallsWith(fn, e) ==
    IF e.exc = "" THEN Append(e.calls, [fn |-> fn, args |-> e.args])
    ELSE e.calls

\* the arguments of expr cut at the top-level commas and classified, the
\* placeholders of each text argument substituted after that
SplitThenSubstitute(expr, ctx) ==
    ArgPlaceholders(ClassifyArgs(SplitArgs(expr, 1, "", "", <<>>), ctx),
                    1, ctx, <<>>, <<>>)

\* C8 as amended: the argument text is cut at its top-level commas and
\* each piece classified first (context key, integer literal, quoted text,
\* raw text); the placeholders inside each argument that is text are
\* substituted after that, so the value of a nested placeholder is passed
\* as text, whole, and is neither cut at its commas nor classified.
C8_SplitThenSubstitute ==
    /\ \A f \in Callables, a \in ArgLists :
          (Ended(CallText(f, a)) /\ Calls(f, a, ctx0))
          => calls = CallsWith(_resolve_key(f, ctx0).v,
                               SplitThenSubstitute(a, ctx0))
    /\ (Ended(CallText("add", "1, {value}")) /\ ctx0 = TestContext)
       => calls = <<[fn |-> "add", args |-> <<VInt(1), VStr("42")>>]>>
    /\ (Ended(CallText("add", "{csv}, 2")) /\ ctx0 = TestContext)
       => calls = <<[fn |-> "add", args |-> <<VStr("a,b"), VInt(2)>>]>>
    /\ (Ended(CallText("user.greet", "'a, {name}', 7")) /\ ctx0 = TestContext)
       => calls = <<[fn |-> "greet", args |-> <<VStr("a, World"), VInt(7)>>]>>

\* C8: add receives the integer 1 and the text "42" of the nested
\* placeholder, and returns their sum
C8_NestedValueIsText ==
    /\ Ended(CallText("add", "1, {value}"))
    /\ ctx0 = TestContext
    /\ calls = <<[fn |-> "add", args |-> <<VInt(1), VStr("42")>>]>>
    /\ result = Gave("<43>")

\* C8: the nested placeholders of the argument text are substituted first,
\* and the callable receives the pieces of the substituted text, cut at its
\* top-level commas and classified, as if that text had been written in
\* the call.
C8_SubstituteThenSplit ==
    \A f \in Callables, a \in ArgLists :
        (Ended(CallText(f, a)) /\ Calls(f, a, ctx0))
        => calls = CallsWith(_resolve_key(f, ctx0).v, SubstituteFirst(a, ctx0))

\* an operand written between matching quotes
Quoted(x) ==
    /\ Len(x) >= 2
    /\ \/ Ch(x, 1) = "'" /\ Ch(x, Len(x)) = "'"
       \/ Ch(x, 1) = "\"" /\ Ch(x, Len(x)) = "\""

\* the value of an operand: the text between the quotes of a quoted one,
\* never looked up; the value at the dotted path of an unquoted one, or
\* its text if the path does not resolve
LiteralOrPath(x, ctx) ==
    IF Quoted(x) THEN VStr(Slice(x, 2, Len(x) - 1))
    ELSE OrText(ResolveParts(Split(x, "."), 1, ctx), x)

\* the text that IfText gives for a condition that is b
Branch(b) == Gave(IF b THEN "Y" ELSE "N")

\* C5: in a comparison an operand between matching quotes, on either
\* side, is the text between the quotes and is never looked up in the
\* context; an operand without quotes is resolved as a dotted path and is
\* its own text only if the path does not resolve.
C5_QuotedIsLiteral ==
    \A c \in Comparisons :
        (conditionals /\ Ended(ComparisonText(c)))
        => result = Branch((c.operator = "==")
                           = PyEq(Cast(LiteralOrPath(c.left, ctx0)),
                                  Cast(LiteralOrPath(c.right, ctx0))))

\* the values that are false as conditions
IsFalse(v) ==
    \/ v.t = "none"
    \/ v.t = "str" /\ v.v = ""
    \/ v.t = "bool" /\ ~v.v
    \/ v.t = "int" /\ v.v = 0
    \/ v.t = "float" /\ v.v[1] = 0
    \/ v.t = "map" /\ Len(v.v) = 0

\* C6 as amended: a bare path is false exactly when it does not resolve or
\* its value is the empty string, the boolean false, the integer 0, the
\* float 0.0 or an empty mapping; every other value (other numbers, text,
\* mappings with items, callables) is true; "not P" is the negation.
C6_Truthiness ==
    \A n \in BOOLEAN, p \in Paths :
        (conditionals /\ Ended(TruthText(n, p)))
        => result = Branch(n = IsFalse(_resolve_key(p, ctx0)))

\* C6: the integer 0 of the context is false as a condition
C6_ZeroIsFalse ==
    /\ conditionals
    /\ Ended(TruthText(FALSE, "zero"))
    /\ Get(ctx0, "zero", PyNone) = VInt(0)
    /\ result = Gave("N")

\* the values that the claim counts as false
IsEmptyOrFalse(v) ==
    \/ v.t = "none"
    \/ v.t = "str" /\ v.v = ""
    \/ v.t = "bool" /\ ~v.v

\* C6: a bare path is false exactly when it does not resolve or its value
\* is the empty string or the boolean false; every other value, the
\* integer 0, the float 0.0 and mappings included, is true; "not P" is the
\* negation.
C6_OnlyEmptyAndFalse ==
    \A n \in BOOLEAN, p \in Paths :
        (conditionals /\ Ended(TruthText(n, p)))
        => result = Branch(n = IsEmptyOrFalse(_resolve_key(p, ctx0)))

\* C7: a condition with a comparison operator other than == and != makes
\* render fail with an error that reaches the caller; render never
\* returns for it, and the term is never silently false.
C7_InvalidOperatorRaises ==
    \A c \in OtherComparisons :
        (conditionals /\ Ended(ComparisonText(c))) => result.status = "raise"

====
